---- MODULE Spec2Model ----
(***************************************************************************)
(* A model of the cursor manager of atelier-boilerplate,                   *)
(* src/src/lib/cursor/CursorManager.ts: one CursorManager object, the      *)
(* platform it talks to (document listeners, the GSAP ticker, the body's   *)
(* cursor style) and the callbacks subscribed to it.                       *)
(*                                                                         *)
(* Numbers.  The lerp factor is kept in hundredths (LerpUnit = 1.0), the   *)
(* raw position, the previous position and the velocity in whole pixels,   *)
(* and the smoothed position in units of 1/Scale pixel, Scale =            *)
(* LerpUnit^MaxDepth.  A tick is taken only while its interpolation is     *)
(* exact in these units, so every value of the model is the exact real     *)
(* number the formula a + (b - a) * t gives; the rounding of IEEE doubles  *)
(* is not modelled.                                                        *)
(***************************************************************************)
EXTENDS Integers, Sequences, FiniteSets, TLC

VARIABLES
    platform,           \* TRUE iff globalThis.window and document exist
    viewport,           \* <<window.innerWidth, window.innerHeight>>
    position,           \* _position
    smoothPosition,     \* _smoothPosition (units of 1/Scale pixel)
    velocity,           \* _velocity
    previousPosition,   \* _previousPosition
    isVisible,          \* _isVisible
    isInViewport,       \* _isInViewport
    styleStack,         \* _styleStack
    lerpFactor,         \* _lerpFactor (hundredths)
    subscribers,        \* _subscribers: a JS Set, in insertion order
    isInitialized,      \* _isInitialized
    docListeners,       \* registrations on document, per event type
    tickerCallbacks,    \* registrations of _boundUpdate on gsap.ticker
    bodyCursor,         \* document.body.style.cursor
    handles,            \* callbacks whose unsubscribe handle has been returned
    lastOp,             \* history: the operation that ran last
    log,                \* history: what it did to the registrations and
                        \* the subscribers, in order
    tickRaw,            \* history: the raw position at the last tick and
                        \* at the tick before it
    beforeHide,         \* history: the style stack just before hide(), while
                        \* that hide() or the show() right after it ran last
    instance,           \* CursorManager.instance: 0 for null, else the
                        \* number of the manager the fields above describe
    created,            \* history: how many managers have been constructed
    held,               \* <<s>>: a snapshot s that getState() returned and
                        \* its caller still holds; <<>>: none
    heldAge,            \* history: operations run since it was returned
    hook,               \* useCursorSnapshot: its effect, timer, posRef
                        \* and snapshot state
    hookHist,           \* history: the pointer's position and the time
                        \* since the hook's last snapshot update
    styleHist,          \* history, kept once it is switched on: the open
                        \* pushStyle/popStyle and hide/show pairs, or the
                        \* operation that pushed each stack entry
    subsHist            \* history, kept once it is switched on: for each
                        \* callback, its subscriptions still in force

vars == <<platform, viewport, position, smoothPosition, velocity,
          previousPosition, isVisible, isInViewport, styleStack, lerpFactor,
          subscribers, isInitialized, docListeners, tickerCallbacks,
          bodyCursor, handles, lastOp, log, tickRaw, beforeHide,
          instance, created, held, heldAge, hook, hookHist, styleHist,
          subsHist>>

styleVars == <<styleStack, isVisible, bodyCursor>>
motionVars == <<position, smoothPosition, velocity, previousPosition,
                tickRaw>>
lifeVars == <<isInitialized, docListeners, tickerCallbacks>>
envVars == <<platform, viewport>>
singletonVars == <<instance, created>>
hookVars == <<hook, hookHist>>

----------------------------------------------------------------------------
(* Bounds of the model *)

MaxStack == 4
MaxDepth == 1
MaxHeldAge == 2
MaxInstances == 2
MaxCoord == 4
ThrottleMs == 2
MaxOpen == 3
MaxSubscriptions == 2
MaxBurst == 2

(* Program constants, in hundredths *)
MinLerp == 1
MaxLerp == 100
DefaultLerp == 10

LerpUnit == MaxLerp

RECURSIVE Pow(_, _)
Pow(b, n) == IF n = 0 THEN 1 ELSE b * Pow(b, n - 1)

Scale == Pow(LerpUnit, MaxDepth)

Styles == {"default", "pointer", "none"}
Callbacks == {"cbA", "cbB"}
Points == {<<0, 0>>, <<4, 2>>, <<1, 2>>}
Viewports == {<<4, 2>>}
(* The pointer positions and window sizes of the specification of
   normalizedPosition *)
GridPoints == (0..MaxCoord) \X (0..MaxCoord)
ViewSizes == {<<4, 2>>, <<2, 4>>, <<3, 3>>}
LerpOptions == {DefaultLerp, 150}
LerpInputs == {-50, 50, 150}

Pos(x, y) == [x |-> x, y |-> y]
Unset == "unset"
NoState == "no state"
NoStack == <<>>
Empty == "empty"
NoTimer == -1
SubsHistOff == [on |-> FALSE, active |-> [c \in Callbacks |-> 0]]
StyleHistOff == [mode |-> "off", hovers |-> 0, hides |-> 0, owners |-> <<>>]

----------------------------------------------------------------------------
(* Pure helpers *)

Min(a, b) == IF a < b THEN a ELSE b
Max(a, b) == IF a > b THEN a ELSE b
Abs(a) == IF a < 0 THEN -a ELSE a

lerp(a, b, t) == a + ((b - a) * t) \div LerpUnit

Top(stack) == IF Len(stack) = 0 THEN "default" ELSE stack[Len(stack)]

style == Top(styleStack)

(* A normalized coordinate is the fraction <<numerator, denominator>>:
   (p / size) * 2 - 1 = (2 * p - size) / size. *)
(* The position as a share of the window, without the map to [-1, 1] *)
NormalizedOfShare(pos) ==
    IF ~platform THEN [x |-> <<0, 1>>, y |-> <<0, 1>>]
    ELSE [x |-> <<pos.x, viewport[1]>>, y |-> <<pos.y, viewport[2]>>]

(* (x / window.innerWidth) * 2 - 1, as the fraction <<numerator,
   denominator>> *)
NormalizedOf(pos) ==
    IF ~platform THEN [x |-> <<0, 1>>, y |-> <<0, 1>>]
    ELSE [x |-> <<2 * pos.x - viewport[1], viewport[1]>>,
          y |-> <<2 * pos.y - viewport[2], viewport[2]>>]

normalizedPosition == NormalizedOf(position)

Snapshot(pos, smooth, vel, vis, inVp, stack) ==
    [position |-> pos,
     normalizedPosition |-> NormalizedOf(pos),
     smoothPosition |-> smooth,
     velocity |-> vel,
     isVisible |-> vis,
     isInViewport |-> inVp,
     style |-> Top(stack)]

GetState ==
    Snapshot(position, smoothPosition, velocity, isVisible, isInViewport,
             styleStack)

(* A nested object of a snapshot as its holder has it. { ...this._position }
   is a new object holding the values of the fields at the spread, so the
   holder reads those values; an object shared with the manager would read
   as the manager's field reads now. *)
SpreadShared(field, value) == [live |-> TRUE, field |-> field, value |-> value]

Spread(field, value) == [live |-> FALSE, field |-> field, value |-> value]

ReadField(o) ==
    IF ~o.live THEN o.value
    ELSE CASE o.field = "position" -> position
           [] o.field = "normalizedPosition" -> normalizedPosition
           [] o.field = "smoothPosition" -> smoothPosition
           [] o.field = "velocity" -> velocity

(* The object getState() returns, which is also what subscribe() and
   _notifySubscribers() pass to a callback *)
HandedOut(state) ==
    [state EXCEPT !.position = Spread("position", @),
                  !.normalizedPosition = Spread("normalizedPosition", @),
                  !.smoothPosition = Spread("smoothPosition", @),
                  !.velocity = Spread("velocity", @)]

(* What the holder of a snapshot reads from it now *)
ReadSnapshot(s) ==
    [s EXCEPT !.position = ReadField(@),
              !.normalizedPosition = ReadField(@),
              !.smoothPosition = ReadField(@),
              !.velocity = ReadField(@)]


----------------------------------------------------------------------------
(* The style stack *)

SetCursor(c) == IF platform THEN c ELSE bodyCursor

PushStack(stack, s) == Append(stack, s)

PopStackUnguarded(stack) == SubSeq(stack, 1, Len(stack) - 1)

PopStack(stack) ==
    IF Len(stack) > 1 THEN SubSeq(stack, 1, Len(stack) - 1) ELSE stack

SetBaseReset(stack, s) == <<s>>

SetBase(stack, s) ==
    IF Len(stack) = 0 THEN <<s>> ELSE [stack EXCEPT ![1] = s]

ShowStackToBase(stack) == <<stack[1]>>

ShowStackOnce(stack) ==
    IF Len(stack) > 1 /\ Top(stack) = "none" THEN PopStack(stack) ELSE stack

RECURSIVE ShowStack(_)
ShowStack(stack) ==
    IF Len(stack) > 1 /\ Top(stack) = "none"
    THEN ShowStack(PopStack(stack))
    ELSE stack

(* A held snapshot grows one operation older; the model follows it for
   MaxHeldAge operations. *)
KeepHeld ==
    /\ held' = held
    /\ IF held = <<>> THEN heldAge' = heldAge
       ELSE heldAge < MaxHeldAge /\ heldAge' = heldAge + 1

(* The history of the style operations after operation op, which has
   lastOp' = op. In mode "pairs" it counts the pushStyle calls not yet
   followed by a popStyle call and the hide calls not yet followed by a show
   call; in mode "owners" it keeps, for each entry of the style stack, the
   operation that pushed it. *)
StyleHistAfter(op) ==
    CASE styleHist.mode = "pairs" ->
           [styleHist EXCEPT
              !.hovers = IF op = "pushStyle" THEN @ + 1
                         ELSE IF op = "popStyle" THEN Max(0, @ - 1) ELSE @,
              !.hides = IF op = "hide" THEN @ + 1
                        ELSE IF op = "show" THEN Max(0, @ - 1) ELSE @]
      [] styleHist.mode = "owners" ->
           [styleHist EXCEPT
              !.owners =
                 CASE op \in {"pushStyle", "hide"} -> Append(@, op)
                   [] op = "popStyle" ->
                        SubSeq(@, 1, Len(PopStack(styleStack)))
                   [] op = "show" ->
                        SubSeq(@, 1, Len(ShowStack(styleStack)))
                   [] OTHER -> @]
      [] OTHER -> styleHist

(* The history of the subscriptions after an operation whose events, in
   order, are events: subscribe() puts a subscription in force; a call of
   an unsubscribe handle of a callback ends one of that callback's
   subscriptions, if it has any in force; destroy()'s clearing ends them
   all. *)
RECURSIVE ActiveAfter(_, _, _)
ActiveAfter(active, events, i) ==
    IF i > Len(events) THEN active
    ELSE LET e == events[i]
             next ==
               CASE e.ev = "add" -> [active EXCEPT ![e.cb] = @ + 1]
                 [] e.ev = "delete" ->
                      [active EXCEPT ![e.cb] = Max(0, @ - 1)]
                 [] e.ev = "clear" -> [c \in Callbacks |-> 0]
                 [] OTHER -> active
         IN  ActiveAfter(next, events, i + 1)

SubsHistAfter(events) ==
    IF ~subsHist.on THEN subsHist
    ELSE [subsHist EXCEPT !.active = ActiveAfter(@, events, 1)]

(* What an operation on the manager leaves alone outside the manager, and
   the history it adds to *)
Outside ==
    /\ KeepHeld
    /\ UNCHANGED <<singletonVars, hookVars>>
    /\ styleHist' = StyleHistAfter(lastOp')

(* The history variables after an operation that neither calls a
   subscriber nor is hide() or show() *)
Plain(op) ==
    /\ lastOp' = op
    /\ log' = <<>>
    /\ beforeHide' = NoStack
    /\ Outside
    /\ UNCHANGED subsHist

pushStyle(s) ==
    /\ Plain("pushStyle")
    /\ Len(styleStack) < MaxStack
    /\ styleStack' = PushStack(styleStack, s)
    /\ bodyCursor' = SetCursor(s)
    /\ UNCHANGED <<isVisible, motionVars, lifeVars, envVars, isInViewport,
                   lerpFactor, subscribers, handles>>

PopCursorStale(stack) == Top(stack)

(* this.style, read after the pop *)
PopCursor(stack) == Top(PopStack(stack))

popStyle ==
    /\ Plain("popStyle")
    /\ styleStack' = PopStack(styleStack)
    /\ bodyCursor' = IF Len(styleStack) > 1
                     THEN SetCursor(PopCursor(styleStack))
                     ELSE bodyCursor
    /\ UNCHANGED <<isVisible, motionVars, lifeVars, envVars, isInViewport,
                   lerpFactor, subscribers, handles>>

setBaseStyle(s) ==
    /\ Plain("setBaseStyle")
    /\ styleStack' = SetBase(styleStack, s)
    /\ bodyCursor' = IF Len(styleStack') = 1 THEN SetCursor(s) ELSE bodyCursor
    /\ UNCHANGED <<isVisible, motionVars, lifeVars, envVars, isInViewport,
                   lerpFactor, subscribers, handles>>

hide ==
    /\ lastOp' = "hide"
    /\ Outside
    /\ UNCHANGED subsHist
    /\ beforeHide' = styleStack
    /\ Len(styleStack) < MaxStack
    /\ isVisible' = FALSE
    /\ styleStack' = PushStack(styleStack, "none")
    /\ bodyCursor' = SetCursor("none")
    /\ log' = <<>>
    /\ UNCHANGED <<motionVars, lifeVars, envVars, isInViewport,
                   lerpFactor, subscribers, handles>>

show ==
    /\ lastOp' = "show"
    /\ Outside
    /\ UNCHANGED subsHist
    /\ beforeHide' = IF lastOp = "hide" THEN beforeHide ELSE NoStack
    /\ isVisible' = TRUE
    /\ styleStack' = ShowStack(styleStack)
    /\ bodyCursor' = SetCursor(Top(styleStack'))
    /\ log' = <<>>
    /\ UNCHANGED <<motionVars, lifeVars, envVars, isInViewport,
                   lerpFactor, subscribers, handles>>

----------------------------------------------------------------------------
(* Lifecycle.  A registration is counted, not deduplicated: init() adds one
   registration per listener and destroy() removes one. *)

AddListener(n) == n + 1
RemoveListener(n) == IF n > 0 THEN n - 1 ELSE 0

Event(ev, c, st) == [ev |-> ev, cb |-> c, state |-> st]

SetAdd(data, c) ==
    IF \E i \in 1..Len(data) : data[i] = c THEN data ELSE Append(data, c)
(* Removal by position, splice(indexOf(c), 1), which takes the last entry
   when c is absent *)
SetDeleteSplice(data, c) ==
    [i \in 1..Len(data) |->
        IF data[i] = c \/ (i = Len(data) /\ \A j \in 1..Len(data) : data[j] # c)
        THEN Empty ELSE data[i]]

SetDelete(data, c) ==
    [i \in 1..Len(data) |-> IF data[i] = c THEN Empty ELSE data[i]]
SetClear(data) == [i \in 1..Len(data) |-> Empty]
SetHas(data, c) == \E i \in 1..Len(data) : data[i] = c
Compact(data) == SelectSeq(data, LAMBDA e : e # Empty)

(* The part of the manager that init(), destroy() and a notification pass
   change: m.data is the subscriber set's entry list, a deleted entry left
   in place as Empty while the set is being iterated. *)
Manager ==
    [isInitialized |-> isInitialized,
     docListeners |-> docListeners,
     tickerCallbacks |-> tickerCallbacks,
     data |-> subscribers,
     log |-> <<>>]

initOnUnguarded(m) ==
    IF ~platform THEN m
    ELSE [m EXCEPT
            !.docListeners = [e \in DOMAIN @ |-> AddListener(@[e])],
            !.tickerCallbacks = AddListener(@),
            !.log = Append(@, Event("register", Empty, NoState)),
            !.isInitialized = TRUE]

initOn(m) ==
    IF m.isInitialized \/ ~platform THEN m
    ELSE [m EXCEPT
            !.docListeners = [e \in DOMAIN @ |-> AddListener(@[e])],
            !.tickerCallbacks = AddListener(@),
            !.log = Append(@, Event("register", Empty, NoState)),
            !.isInitialized = TRUE]

destroyOn(m) ==
    IF ~m.isInitialized THEN m
    ELSE [m EXCEPT
            !.docListeners = [e \in DOMAIN @ |-> RemoveListener(@[e])],
            !.tickerCallbacks = RemoveListener(@),
            !.data = SetClear(@),
            !.log = Append(@, Event("clear", Empty, Len(Compact(m.data)))),
            !.isInitialized = FALSE]

Install(m) ==
    /\ isInitialized' = m.isInitialized
    /\ docListeners' = m.docListeners
    /\ tickerCallbacks' = m.tickerCallbacks
    /\ subscribers' = Compact(m.data)
    /\ log' = m.log

init ==
    /\ lastOp' = "init"
    /\ Outside
    /\ UNCHANGED subsHist
    /\ beforeHide' = NoStack
    /\ Install(initOn(Manager))
    /\ UNCHANGED <<styleVars, motionVars, envVars, isInViewport, lerpFactor,
                   handles>>

destroy ==
    /\ lastOp' = "destroy"
    /\ Outside
    /\ beforeHide' = NoStack
    /\ Install(destroyOn(Manager))
    /\ UNCHANGED <<styleVars, motionVars, envVars, isInViewport, lerpFactor,
                   handles>>
    /\ subsHist' = SubsHistAfter(log')

----------------------------------------------------------------------------
(* Pointer events: the document delivers an event to a registered handler *)

handleMouseMove(p) ==
    /\ Plain("handleMouseMove")
    /\ docListeners.mousemove > 0
    /\ position' = Pos(p[1], p[2])
    /\ isInViewport' = TRUE
    /\ UNCHANGED <<smoothPosition, velocity, previousPosition, tickRaw,
                   styleVars, lifeVars, envVars, lerpFactor, subscribers,
                   handles>>

(* The window is resized: innerWidth and innerHeight change *)
resize(v) ==
    /\ Plain("resize")
    /\ platform
    /\ viewport' = v
    /\ UNCHANGED <<platform, motionVars, styleVars, lifeVars, isInViewport,
                   lerpFactor, subscribers, handles>>

handleMouseEnter ==
    /\ Plain("handleMouseEnter")
    /\ docListeners.mouseenter > 0
    /\ isInViewport' = TRUE
    /\ isVisible' = TRUE
    /\ UNCHANGED <<motionVars, styleStack, bodyCursor, lifeVars, envVars,
                   lerpFactor, subscribers, handles>>

handleMouseLeave ==
    /\ Plain("handleMouseLeave")
    /\ docListeners.mouseleave > 0
    /\ isInViewport' = FALSE
    /\ UNCHANGED <<motionVars, styleVars, lifeVars, envVars, lerpFactor,
                   subscribers, handles>>

----------------------------------------------------------------------------
(* The update loop *)

ToUnits(pos) == Pos(pos.x * Scale, pos.y * Scale)

VelocityAfterStore(pos, prev) == Pos(pos.x - pos.x, pos.y - pos.y)

Velocity(pos, prev) == Pos(pos.x - prev.x, pos.y - prev.y)

SmoothSwapped(smooth, pos, f) ==
    Pos(lerp(ToUnits(pos).x, smooth.x, f), lerp(ToUnits(pos).y, smooth.y, f))

Smooth(smooth, pos, f) ==
    Pos(lerp(smooth.x, ToUnits(pos).x, f), lerp(smooth.y, ToUnits(pos).y, f))

(* The bound on the model's precision: the interpolation is exact *)
Exact(a, b, t) == ((b - a) * t) % LerpUnit = 0
ExactSmooth(smooth, pos, f) ==
    /\ Exact(smooth.x, ToUnits(pos).x, f)
    /\ Exact(smooth.y, ToUnits(pos).y, f)

(* What a subscriber does when it is called during a tick: nothing, call an
   unsubscribe handle it holds (its own or another callback's), or call
   destroy(). *)
Reactions ==
    {[kind |-> "none", cb |-> Empty], [kind |-> "destroy", cb |-> Empty]}
    \cup {[kind |-> "unsubscribe", cb |-> c] : c \in handles}

unsubscribeOn(m, c) ==
    [m EXCEPT !.data = SetDelete(@, c),
              !.log = Append(@, Event("delete", c, SetHas(m.data, c)))]

React(m, r) ==
    CASE r.kind = "none" -> m
      [] r.kind = "unsubscribe" -> unsubscribeOn(m, r.cb)
      [] r.kind = "destroy" -> destroyOn(m)

(* for (const subscriber of this._subscribers) subscriber(state): the
   iterator walks the entry list by index, skips deleted entries and sees
   the deletions made while it runs. *)
(* The same loop over a copy of the set taken when the pass starts *)
RECURSIVE notifyFromCopy(_, _, _, _)
notifyFromCopy(m, i, state, react) ==
    IF i > Len(subscribers) THEN m
    ELSE LET c == subscribers[i]
             called == [m EXCEPT !.log = Append(@, Event("invoke", c, state))]
         IN  notifyFromCopy(React(called, react[c]), i + 1, state, react)

RECURSIVE notifyFrom(_, _, _, _)
notifyFrom(m, i, state, react) ==
    IF i > Len(m.data) THEN m
    ELSE IF m.data[i] = Empty THEN notifyFrom(m, i + 1, state, react)
    ELSE LET c == m.data[i]
             called == [m EXCEPT !.log = Append(@, Event("invoke", c, state))]
         IN  notifyFrom(React(called, react[c]), i + 1, state, react)

(* The pass run with the state as it was before the tick's update *)
notifySubscribersStale(m, state, react) ==
    IF Len(m.data) = 0 THEN m ELSE notifyFrom(m, 1, GetState, react)

notifySubscribers(m, state, react) ==
    IF Len(m.data) = 0 THEN m ELSE notifyFrom(m, 1, state, react)

update ==
    /\ lastOp' = "update"
    /\ Outside
    /\ beforeHide' = NoStack
    /\ tickerCallbacks > 0
    /\ ExactSmooth(smoothPosition, position, lerpFactor)
    /\ velocity' = Velocity(position, previousPosition)
    /\ previousPosition' = position
    /\ smoothPosition' = Smooth(smoothPosition, position, lerpFactor)
    /\ tickRaw' = <<position, tickRaw[1]>>
    /\ \E react \in [Callbacks -> Reactions] :
          Install(notifySubscribers(Manager,
                     Snapshot(position, smoothPosition', velocity', isVisible,
                              isInViewport, styleStack),
                     react))
    /\ UNCHANGED <<position, styleVars, envVars, isInViewport, lerpFactor,
                   handles>>
    /\ subsHist' = SubsHistAfter(log')

----------------------------------------------------------------------------
(* The rest of the public interface *)

ClampUpperOnly(f) == Min(MaxLerp, f)

Clamp(f) == Max(MinLerp, Min(MaxLerp, f))

setLerpFactor(f) ==
    /\ Plain("setLerpFactor")
    /\ lerpFactor' = Clamp(f)
    /\ UNCHANGED <<motionVars, styleVars, lifeVars, envVars, isInViewport,
                   subscribers, handles>>

subscribeEventsNoCall(c, state) ==
    <<Event("add", c, NoState), Event("handle", c, NoState)>>

(* add the callback, call it with getState(), return the closure *)
subscribeEvents(c, state) ==
    <<Event("add", c, NoState), Event("invoke", c, state),
      Event("handle", c, NoState)>>

subscribe(c) ==
    /\ lastOp' = "subscribe"
    /\ Outside
    /\ beforeHide' = NoStack
    /\ subscribers' = SetAdd(subscribers, c)
    /\ log' = subscribeEvents(c, GetState)
    /\ handles' = handles \cup {c}
    /\ UNCHANGED <<motionVars, styleVars, lifeVars, envVars, isInViewport,
                   lerpFactor>>
    /\ subsHist' = SubsHistAfter(log')

(* The closure subscribe(c) returned *)
unsubscribe(c) ==
    /\ lastOp' = "unsubscribe"
    /\ Outside
    /\ beforeHide' = NoStack
    /\ c \in handles
    /\ subscribers' = Compact(unsubscribeOn(Manager, c).data)
    /\ log' = unsubscribeOn(Manager, c).log
    /\ UNCHANGED <<motionVars, styleVars, lifeVars, envVars, isInViewport,
                   lerpFactor, handles>>
    /\ subsHist' = SubsHistAfter(log')

SnapXOnly(smooth, pos) == Pos(ToUnits(pos).x, smooth.y)

Snap(smooth, pos) == Pos(ToUnits(pos).x, ToUnits(pos).y)

snapToPosition ==
    /\ Plain("snapToPosition")
    /\ smoothPosition' = Snap(smoothPosition, position)
    /\ UNCHANGED <<position, velocity, previousPosition, tickRaw,
                   styleVars, lifeVars, envVars, isInViewport, lerpFactor,
                   subscribers, handles>>

(* A caller takes getState()'s result and keeps it *)
getState ==
    /\ lastOp' = "getState"
    /\ log' = <<>>
    /\ beforeHide' = NoStack
    /\ held' = <<HandedOut(GetState)>>
    /\ heldAge' = 0
    /\ UNCHANGED <<motionVars, styleVars, lifeVars, envVars, isInViewport,
                   lerpFactor, subscribers, handles, singletonVars,
                   hookVars, styleHist, subsHist>>

----------------------------------------------------------------------------
(* The state after new CursorManager(options), in either environment *)

Options ==
    [lerpFactor : LerpOptions, autoInit : BOOLEAN, initialStyle : Styles]

NoListeners == [mousemove |-> 0, mouseenter |-> 0, mouseleave |-> 0]

(* The fields of new CursorManager(options) *)
New(options) ==
    LET fresh == [isInitialized |-> FALSE, docListeners |-> NoListeners,
                  tickerCallbacks |-> 0, data |-> <<>>, log |-> <<>>]
        m == IF options.autoInit THEN initOn(fresh) ELSE fresh
    IN  [position |-> Pos(0, 0),
         smoothPosition |-> Pos(0, 0),
         velocity |-> Pos(0, 0),
         previousPosition |-> Pos(0, 0),
         isVisible |-> TRUE,
         isInViewport |-> FALSE,
         lerpFactor |-> options.lerpFactor,
         styleStack |-> <<options.initialStyle>>,
         subscribers |-> <<>>,
         isInitialized |-> m.isInitialized,
         docListeners |-> m.docListeners,
         tickerCallbacks |-> m.tickerCallbacks]

Constructed(options) ==
    LET n == New(options)
    IN  /\ position = n.position
        /\ smoothPosition = n.smoothPosition
        /\ velocity = n.velocity
        /\ previousPosition = n.previousPosition
        /\ isVisible = n.isVisible
        /\ isInViewport = n.isInViewport
        /\ lerpFactor = n.lerpFactor
        /\ styleStack = n.styleStack
        /\ subscribers = n.subscribers
        /\ isInitialized = n.isInitialized
        /\ docListeners = n.docListeners
        /\ tickerCallbacks = n.tickerCallbacks

----------------------------------------------------------------------------
(* useCursorSnapshot(throttleMs). hook.listening: the effect has run and its
   cleanup has not; hook.timer: the effect's `timer`, NoTimer for null, else
   the id of a timeout; hook.pending: the platform's timeouts set by the
   hook and not yet fired or cleared, each with the time left until it is
   due; hook.posRef and hook.snapshot: posRef.current and the state
   `snapshot`. Time passes in steps of one; throttleMs is ThrottleMs steps.
   hookHist.pointer is the position of the last pointermove event and
   hookHist.sinceUpdate the time since the last setSnapshot, counted up to
   ThrottleMs, hookHist.burst the number of pointer events onMove has
   handled since the last timeout was set, that one included, counted up
   to MaxBurst. *)

HookInit ==
    [listening |-> FALSE, timer |-> NoTimer, pending |-> {},
     posRef |-> Pos(0, 0), snapshot |-> Pos(0, 0)]

HookHistInit ==
    [pointer |-> Pos(0, 0), sinceUpdate |-> ThrottleMs, burst |-> 0]

managerVars ==
    <<platform, viewport, position, smoothPosition, velocity,
      previousPosition, isVisible, isInViewport, styleStack, lerpFactor,
      subscribers, isInitialized, docListeners, tickerCallbacks, bodyCursor,
      handles, tickRaw, instance, created, held, heldAge, styleHist,
      subsHist>>

HookOp(op) ==
    /\ lastOp' = op
    /\ log' = <<>>
    /\ beforeHide' = NoStack
    /\ UNCHANGED managerVars

(* globalThis.setTimeout: a new timeout, due after delay *)
SetTimeout(pending, delay) ==
    LET id == CHOOSE i \in 1..(Cardinality(pending) + 1) :
                  \A t \in pending : t.id # i
    IN  [id |-> id, left |-> delay]

(* globalThis.clearTimeout *)
ClearTimeout(pending, id) == {t \in pending : t.id # id}

(* schedule() that sets a timeout whether or not one is pending *)
ScheduleUnguarded(h) ==
    LET t == SetTimeout(h.pending, ThrottleMs)
    IN  [h EXCEPT !.timer = t.id, !.pending = @ \cup {t}]

(* schedule() that clears the pending timeout and sets a new one *)
ScheduleRestart(h) ==
    LET cleared == ClearTimeout(h.pending, h.timer)
        t == SetTimeout(cleared, ThrottleMs)
    IN  [h EXCEPT !.timer = t.id, !.pending = cleared \cup {t}]

(* schedule(): if (timer !== null) return; timer = setTimeout(..., throttleMs) *)
Schedule(h) ==
    IF h.timer # NoTimer THEN h
    ELSE LET t == SetTimeout(h.pending, ThrottleMs)
         IN  [h EXCEPT !.timer = t.id, !.pending = @ \cup {t}]

(* onMove: posRef.current.x = e.clientX; ...y = e.clientY; schedule() *)
OnMove(h, p) == Schedule([h EXCEPT !.posRef = Pos(p[1], p[2])])

(* The effect runs: a new `timer`, null, and the listener is added *)
hookEffect ==
    /\ HookOp("hookEffect")
    /\ ~hook.listening
    /\ hook' = [hook EXCEPT !.listening = TRUE, !.timer = NoTimer]
    /\ UNCHANGED hookHist

(* The effect's cleanup: the listener is removed and a pending timeout
   cleared *)
hookCleanup ==
    /\ HookOp("hookCleanup")
    /\ hook.listening
    /\ hook' = [hook EXCEPT
                  !.listening = FALSE,
                  !.pending = IF hook.timer # NoTimer
                              THEN ClearTimeout(@, hook.timer) ELSE @]
    /\ UNCHANGED hookHist

(* A pointermove event is dispatched; onMove runs if it is registered *)
pointerMove(p) ==
    /\ HookOp("pointerMove")
    /\ hookHist' = [hookHist EXCEPT
                      !.pointer = Pos(p[1], p[2]),
                      !.burst = IF ~hook.listening THEN @
                                ELSE IF hook.timer = NoTimer THEN 1
                                ELSE Min(MaxBurst, @ + 1)]
    /\ hook' = IF hook.listening THEN OnMove(hook, p) ELSE hook

(* A due timeout runs its callback: timer = null;
   setSnapshot({ ...posRef.current }) *)
timerFire ==
    /\ HookOp("timerFire")
    /\ \E t \in hook.pending :
          /\ t.left = 0
          /\ hook' = [hook EXCEPT !.pending = @ \ {t},
                                  !.timer = NoTimer,
                                  !.snapshot = hook.posRef]
    /\ hookHist' = [hookHist EXCEPT !.sinceUpdate = 0]

(* One step of time; a due timeout may run late *)
timePass ==
    /\ HookOp("timePass")
    /\ hook' = [hook EXCEPT
                  !.pending = {[t EXCEPT !.left = Max(0, @ - 1)] : t \in @}]
    /\ hookHist' = [hookHist EXCEPT
                      !.sinceUpdate = Min(ThrottleMs, @ + 1)]

----------------------------------------------------------------------------
Init ==
    /\ platform \in BOOLEAN
    /\ viewport \in Viewports
    /\ bodyCursor = Unset
    /\ handles = {}
    /\ lastOp = "new"
    /\ beforeHide = NoStack
    /\ log = <<>>
    /\ tickRaw = <<Pos(0, 0), Pos(0, 0)>>
    /\ instance = 1
    /\ created = 1
    /\ held = <<>>
    /\ heldAge = 0
    /\ hook = HookInit
    /\ hookHist = HookHistInit
    /\ styleHist = StyleHistOff
    /\ subsHist = SubsHistOff
    /\ \E options \in Options : Constructed(options)

----------------------------------------------------------------------------
(* The callers of the style operations. useCursorHover calls pushStyle(style)
   when the pointer enters its element and popStyle() when it leaves;
   useCursorHide is useCursorHover("none"); useCursorVisibility(false) calls
   hide() in its effect and show() in the effect's cleanup. Once the history
   is in mode "pairs" it counts the pairs these callers have open. *)

StartHistory(op, mode) ==
    /\ lastOp = "new"
    /\ lastOp' = op
    /\ log' = <<>>
    /\ beforeHide' = NoStack
    /\ styleHist' = [StyleHistOff EXCEPT
                       !.mode = mode,
                       !.owners = IF mode = "owners" THEN <<"base">> ELSE @]
    /\ UNCHANGED <<motionVars, styleVars, lifeVars, envVars, isInViewport,
                   lerpFactor, subscribers, handles, singletonVars, hookVars,
                   held, heldAge, subsHist>>

(* From a manager that was just constructed on, the operation that pushed
   each entry of _styleStack is kept *)
recordOwners == StartHistory("recordOwners", "owners")

(* The hooks mount on a manager that was just constructed *)
mountHooks == StartHistory("mountHooks", "pairs")

(* useCursorHover: handleEnter *)
handleEnter(s) ==
    /\ styleHist.mode = "pairs"
    /\ styleHist.hovers < MaxOpen
    /\ pushStyle(s)

(* useCursorHover: handleLeave, after a handleEnter *)
handleLeave ==
    /\ styleHist.mode = "pairs"
    /\ styleHist.hovers > 0
    /\ popStyle

(* useCursorVisibility(false): the effect *)
visibilityEffect ==
    /\ styleHist.mode = "pairs"
    /\ styleHist.hides < MaxOpen
    /\ hide

(* useCursorVisibility(false): the cleanup of that effect *)
visibilityCleanup ==
    /\ styleHist.mode = "pairs"
    /\ styleHist.hides > 0
    /\ show

(* From a manager that was just constructed on, the subscriptions in
   force are kept *)
recordSubscriptions ==
    /\ lastOp = "new"
    /\ lastOp' = "recordSubscriptions"
    /\ log' = <<>>
    /\ beforeHide' = NoStack
    /\ subsHist' = [SubsHistOff EXCEPT !.on = TRUE]
    /\ UNCHANGED <<motionVars, styleVars, lifeVars, envVars, isInViewport,
                   lerpFactor, subscribers, handles, singletonVars, hookVars,
                   held, heldAge, styleHist>>

(* subscribe(c), also with a callback that is subscribed already or was
   before, up to MaxSubscriptions subscriptions in force *)
subscribeAgain(c) ==
    /\ subsHist.on
    /\ subsHist.active[c] < MaxSubscriptions
    /\ subscribe(c)

----------------------------------------------------------------------------
(* The singleton. The manager's variables describe the instance the handle
   names or, while the handle is null, the instance it named last, which
   its holders can still call. *)

NoInstance == 0

GetInstanceAlwaysNew(inst, next) == next

(* CursorManager.instance ??= new CursorManager(options) *)
GetInstanceHandle(inst, next) == IF inst = NoInstance THEN next ELSE inst

getInstance(options) ==
    LET id == GetInstanceHandle(instance, created + 1)
        n == New(options)
    IN  /\ lastOp' = "getInstance"
        /\ beforeHide' = NoStack
        /\ KeepHeld
        /\ instance' = id
        /\ UNCHANGED <<envVars, bodyCursor, hookVars, styleHist, subsHist>>
        /\ IF id = instance
           THEN /\ log' = <<Event("return", Empty, id)>>
                /\ UNCHANGED <<motionVars, styleStack, isVisible, lifeVars,
                               isInViewport, lerpFactor, subscribers,
                               handles, created>>
           ELSE /\ created < MaxInstances
                /\ created' = created + 1
                /\ log' = <<Event("construct", Empty, options),
                            Event("return", Empty, id)>>
                /\ position' = n.position
                /\ smoothPosition' = n.smoothPosition
                /\ velocity' = n.velocity
                /\ previousPosition' = n.previousPosition
                /\ tickRaw' = <<Pos(0, 0), Pos(0, 0)>>
                /\ isVisible' = n.isVisible
                /\ isInViewport' = n.isInViewport
                /\ lerpFactor' = n.lerpFactor
                /\ styleStack' = n.styleStack
                /\ subscribers' = n.subscribers
                /\ handles' = {}
                /\ isInitialized' = n.isInitialized
                /\ docListeners' = n.docListeners
                /\ tickerCallbacks' = n.tickerCallbacks

destroyInstance ==
    /\ lastOp' = "destroyInstance"
    /\ beforeHide' = NoStack
    /\ KeepHeld
    /\ IF instance # NoInstance
       THEN Install(destroyOn(Manager)) /\ instance' = NoInstance
       ELSE /\ log' = <<>>
            /\ UNCHANGED <<lifeVars, subscribers, instance>>
    /\ UNCHANGED <<motionVars, styleVars, envVars, isInViewport, lerpFactor,
                   handles, created, hookVars, styleHist, subsHist>>

----------------------------------------------------------------------------
Next ==
    \/ init
    \/ destroy
    \/ \E p \in Points : handleMouseMove(p)
    \/ handleMouseEnter
    \/ handleMouseLeave
    \/ update
    \/ \E f \in LerpInputs : setLerpFactor(f)
    \/ hide
    \/ show
    \/ \E s \in Styles : pushStyle(s)
    \/ popStyle
    \/ \E s \in Styles : setBaseStyle(s)
    \/ \E c \in Callbacks : subscribe(c)
    \/ \E c \in Callbacks : unsubscribe(c)
    \/ snapToPosition
    \/ getState
    \/ \E options \in Options : getInstance(options)
    \/ destroyInstance
    \/ \E v \in ViewSizes : resize(v)
    \/ hookEffect
    \/ hookCleanup
    \/ \E p \in Points : pointerMove(p)
    \/ timerFire
    \/ timePass
    \/ recordOwners
    \/ mountHooks
    \/ \E s \in Styles : handleEnter(s)
    \/ handleLeave
    \/ visibilityEffect
    \/ visibilityCleanup
    \/ recordSubscriptions
    \/ \E c \in Callbacks : subscribeAgain(c)

Spec == Init /\ [][Next]_vars

(* The style stack and visibility: the operations that read or write
   _styleStack, _isVisible and the body's cursor, with the lifecycle. *)
NextStyle ==
    \/ init
    \/ destroy
    \/ handleMouseEnter
    \/ handleMouseLeave
    \/ hide
    \/ show
    \/ \E s \in Styles : pushStyle(s)
    \/ popStyle
    \/ \E s \in Styles : setBaseStyle(s)

SpecStyle == Init /\ [][NextStyle]_vars

(* Positions: the operations that read or write the raw, previous and
   smoothed position, the velocity and the lerp factor. *)
NextMotion ==
    \/ init
    \/ destroy
    \/ \E p \in Points : handleMouseMove(p)
    \/ update
    \/ \E f \in LerpInputs : setLerpFactor(f)
    \/ snapToPosition

SpecMotion == Init /\ [][NextMotion]_vars

(* Subscriptions and lifecycle: the operations that read or write
   _subscribers, _isInitialized and the registrations. *)
NextSubs ==
    \/ init
    \/ destroy
    \/ \E p \in Points : handleMouseMove(p)
    \/ update
    \/ \E c \in Callbacks : subscribe(c)
    \/ \E c \in Callbacks : unsubscribe(c)

SpecSubs == Init /\ [][NextSubs]_vars

(* Snapshots: getState() and the operations that change what a snapshot
   is taken of. *)
NextSnapshot ==
    \/ getState
    \/ \E p \in Points : handleMouseMove(p)
    \/ update
    \/ snapToPosition
    \/ hide
    \/ show

SpecSnapshot == Init /\ [][NextSnapshot]_vars

(* The singleton accessor, with operations that take a manager away from
   its fresh state. *)
NextSingleton ==
    \/ \E options \in Options : getInstance(options)
    \/ destroyInstance
    \/ destroy
    \/ hide
    \/ \E c \in Callbacks : subscribe(c)

SpecSingleton == Init /\ [][NextSingleton]_vars

(* The normalized position: pointer moves over a grid of positions in
   windows of several sizes. *)
NextNormalized ==
    \/ init
    \/ destroy
    \/ \E p \in GridPoints : handleMouseMove(p)
    \/ \E v \in ViewSizes : resize(v)

SpecNormalized == Init /\ [][NextNormalized]_vars

(* useCursorSnapshot: its effect, the pointer events, its timeouts and the
   passing of time. *)
NextHook ==
    \/ hookEffect
    \/ hookCleanup
    \/ \E p \in Points : pointerMove(p)
    \/ timerFire
    \/ timePass

SpecHook == Init /\ [][NextHook]_vars

(* The style operations as the hooks call them, in pairs that interleave
   freely. *)
NextPairs ==
    \/ mountHooks
    \/ \E s \in Styles : handleEnter(s)
    \/ handleLeave
    \/ visibilityEffect
    \/ visibilityCleanup

SpecPairs == Init /\ [][NextPairs]_vars

(* Visibility: the style operations called freely, with the pointer
   events, and the history of who pushed each stack entry. *)
NextOwners ==
    \/ recordOwners
    \/ \E s \in Styles : pushStyle(s)
    \/ popStyle
    \/ hide
    \/ show
    \/ handleMouseEnter
    \/ handleMouseLeave
    \/ \E p \in Points : handleMouseMove(p)

SpecOwners == Init /\ [][NextOwners]_vars

(* Subscriptions of the same callback more than once, with the history of
   which are in force. *)
NextResubscribe ==
    \/ recordSubscriptions
    \/ init
    \/ destroy
    \/ update
    \/ \E c \in Callbacks : subscribeAgain(c)
    \/ \E c \in Callbacks : unsubscribe(c)

SpecResubscribe == Init /\ [][NextResubscribe]_vars

----------------------------------------------------------------------------
(* C1: in every state reachable by pushStyle, popStyle, setBaseStyle, hide
   and show the style stack has at least one element, and popStyle() on a
   stack of exactly one element leaves the stack as it was. *)
C1_StackNeverEmpty ==
    /\ [](Len(styleStack) >= 1)
    /\ [][(popStyle /\ Len(styleStack) = 1) => styleStack' = styleStack]_vars

(* popStyle() has run on a one-element stack: on a platform whose cursor no
   operation has set yet, the stack has held one element since construction *)
C1_Witness ==
    /\ lastOp = "popStyle"
    /\ Len(styleStack) = 1
    /\ platform
    /\ bodyCursor = Unset

C3_VelocityIsRawDelta ==
    lastOp = "update" =>
        /\ velocity.x = tickRaw[1].x - tickRaw[2].x
        /\ velocity.y = tickRaw[1].y - tickRaw[2].y
        /\ tickRaw[1] = position
        /\ previousPosition = position
        /\ (tickRaw[1] = tickRaw[2] => velocity = Pos(0, 0))

(* a tick whose raw position differs from that of the tick before it, which
   was not at the origin either *)
C3_Witness ==
    /\ lastOp = "update"
    /\ tickRaw[2] # Pos(0, 0)
    /\ tickRaw[1] # tickRaw[2]
    /\ velocity.x # 0
    /\ velocity.y # 0

(* The distance of the smoothed position from the raw one, per axis, in
   units of 1/Scale pixel *)
DistX == Abs(smoothPosition.x - position.x * Scale)
DistY == Abs(smoothPosition.y - position.y * Scale)

(* C4: a tick with a lerp factor f in (0, 1] moves the smoothed position
   towards the raw one: per axis the distance never grows, shrinks while it
   is not zero, is multiplied by exactly 1 - f (so that it tends to 0 over
   repeated ticks at a constant raw position) and is 0 after one tick when
   f = 1. *)
C4_LerpConverges ==
    [][(lastOp' = "update" /\ lerpFactor > 0 /\ lerpFactor <= MaxLerp) =>
        /\ DistX' <= DistX /\ DistY' <= DistY
        /\ (DistX # 0 => DistX' < DistX)
        /\ (DistY # 0 => DistY' < DistY)
        /\ DistX' * LerpUnit = DistX * (LerpUnit - lerpFactor)
        /\ DistY' * LerpUnit = DistY * (LerpUnit - lerpFactor)
        /\ (lerpFactor = MaxLerp => (DistX' = 0 /\ DistY' = 0))]_vars

(* a tick with a factor strictly between 0 and 1 has left the smoothed
   position strictly between its start and the raw position *)
C4_Witness ==
    /\ lastOp = "update"
    /\ lerpFactor > 0 /\ lerpFactor < MaxLerp
    /\ DistX # 0 /\ DistY # 0
    /\ smoothPosition # Pos(0, 0)

(* C5: snapToPosition() makes the smoothed position the raw position in
   both axes, whatever the lerp factor and the smoothed position were, and
   changes nothing else of the manager or the platform. *)
C5_SnapIsExact ==
    [][lastOp' = "snapToPosition" =>
        /\ smoothPosition'.x = position.x * Scale
        /\ smoothPosition'.y = position.y * Scale
        /\ UNCHANGED <<position, velocity, previousPosition, styleStack,
                       isVisible, isInViewport, subscribers, lerpFactor,
                       isInitialized, docListeners, tickerCallbacks,
                       bodyCursor, handles>>]_vars

(* snapToPosition() has run away from the origin, between two ticks of an
   interpolation that had not arrived *)
C5_Witness ==
    /\ lastOp = "snapToPosition"
    /\ position # Pos(0, 0)
    /\ position # previousPosition
    /\ smoothPosition = ToUnits(position)
    /\ lerpFactor = DefaultLerp

Invocations(events) == SelectSeq(events, LAMBDA e : e.ev = "invoke")

(* C6: subscribe(cb) adds cb to the subscriber set and calls cb exactly
   once, with a snapshot equal to the manager's state at the call, before it
   returns the unsubscribe handle, on an initialized manager or not. *)
C6_SubscribeCallsOnce ==
    lastOp = "subscribe" =>
        \E c \in Callbacks :
            /\ SetHas(subscribers, c)
            /\ Invocations(log) = <<Event("invoke", c, GetState)>>
            /\ log[Len(log)] = Event("handle", c, NoState)
            /\ log[Len(log) - 1].ev = "invoke"
            /\ c \in handles

(* subscribe() has run on a manager that was destroyed after the pointer
   and the smoothed position had moved *)
C6_Witness ==
    /\ lastOp = "subscribe"
    /\ ~isInitialized
    /\ Len(subscribers) = 2
    /\ position # Pos(0, 0)
    /\ smoothPosition # Pos(0, 0)
    /\ Len(Invocations(log)) = 1

(* the event removes callback c from the subscriber set *)
Removes(e, c) ==
    \/ e.ev = "delete" /\ e.cb = c
    \/ e.ev = "clear"

(* C7: in a tick's notification pass whose callbacks call unsubscribe
   handles or destroy(), the pass ends, no callback is called twice and no
   callback is called after it was removed from the subscriber set. *)
C7_NotifyPassIsSafe ==
    lastOp = "update" =>
        /\ Len(log) <= 2 * Cardinality(Callbacks)
        /\ \A i, j \in 1..Len(log) :
              (i < j /\ log[j].ev = "invoke") =>
                  /\ ~(log[i].ev = "invoke" /\ log[i].cb = log[j].cb)
                  /\ ~Removes(log[i], log[j].cb)
        /\ ((\E i \in 1..Len(log) : log[i].ev = "clear") =>
               (subscribers = <<>> /\ ~isInitialized /\ tickerCallbacks = 0))

(* a pass in which the first callback removed the second, still subscribed,
   before its turn *)
C7_Witness ==
    /\ lastOp = "update"
    /\ Len(log) = 2
    /\ log[1].ev = "invoke"
    /\ log[2].ev = "delete"
    /\ log[2].cb # log[1].cb
    /\ log[2].state = TRUE

(* C8 as stated: after destroy(), called in any state, no pointer listener
   and no tick callback is registered, the subscriber set is empty and the
   manager is uninitialized. *)
C8_DestroyLeavesNothing ==
    lastOp = "destroy" =>
        /\ \A e \in DOMAIN docListeners : docListeners[e] = 0
        /\ tickerCallbacks = 0
        /\ subscribers = <<>>
        /\ ~isInitialized

Registered(n) ==
    /\ \A e \in DOMAIN docListeners : docListeners[e] = n
    /\ tickerCallbacks = n

(* C9: after any sequence of init() and destroy() each pointer listener and
   the tick callback are registered once if the manager is initialized and
   not at all otherwise, and init() on an initialized manager, or without a
   window, changes nothing. *)
C9_InitIsIdempotent ==
    /\ [](IF isInitialized THEN Registered(1) ELSE Registered(0))
    /\ [][(lastOp' = "init" /\ (isInitialized \/ ~platform)) =>
            UNCHANGED <<position, smoothPosition, velocity, previousPosition,
                        isVisible, isInViewport, styleStack, lerpFactor,
                        subscribers, isInitialized, docListeners,
                        tickerCallbacks, bodyCursor, handles>>]_vars

(* init() has run, and registered nothing, on an initialized manager with a
   subscriber *)
C9_Witness ==
    /\ lastOp = "init"
    /\ log = <<>>
    /\ platform
    /\ isInitialized
    /\ Registered(1)
    /\ subscribers # <<>>

IsPrefix(a, b) == Len(a) <= Len(b) /\ SubSeq(b, 1, Len(a)) = a

(* The operation that ran changes the top of the style stack *)
ChangesTop ==
    \/ lastOp' \in {"pushStyle", "hide", "show"}
    \/ lastOp' = "popStyle" /\ Len(styleStack) > 1
    \/ lastOp' = "setBaseStyle" /\ Len(styleStack) = 1

(* The stack after that operation, platform or not *)
StackUpdated ==
    CASE lastOp' = "pushStyle" ->
            \E s \in Styles : styleStack' = Append(styleStack, s)
      [] lastOp' = "hide" -> styleStack' = Append(styleStack, "none")
      [] lastOp' = "popStyle" ->
            styleStack' = SubSeq(styleStack, 1, Len(styleStack) - 1)
      [] lastOp' = "setBaseStyle" -> \E s \in Styles : styleStack' = <<s>>
      [] lastOp' = "show" ->
            /\ IsPrefix(styleStack', styleStack)
            /\ Len(styleStack') = 1 \/ Top(styleStack') # "none"
            /\ \A i \in (Len(styleStack') + 1)..Len(styleStack) :
                  styleStack[i] = "none"

(* C10: after every operation that changes the top of the style stack the
   body's cursor is the top of the stack, when there is a document; when
   there is none the operation updates the stack all the same. *)
C10_TopPropagates ==
    [][ChangesTop =>
        /\ StackUpdated
        /\ (platform => bodyCursor' = Top(styleStack'))
        /\ (~platform => bodyCursor' = bodyCursor)]_vars

(* popStyle() has removed an entry and uncovered "pointer", which is now
   the body's cursor *)
C10_Witness ==
    /\ lastOp = "popStyle"
    /\ platform
    /\ styleStack = <<"default", "pointer">>
    /\ bodyCursor = "pointer"

(* ------------------------------------------------------------------ *)
(* C11: show() sets isVisible to true and removes exactly the maximal
   run of trailing "none" entries above the base: what is left is the
   old stack's beginning, unchanged in value and order, every removed
   entry is "none", and afterwards the top is not "none" or the stack has
   exactly one element. *)
C11_ShowRemovesTrailingNone ==
    [][lastOp' = "show" =>
          /\ isVisible'
          /\ Len(styleStack') >= 1
          /\ IsPrefix(styleStack', styleStack)
          /\ \A i \in (Len(styleStack') + 1)..Len(styleStack) :
                 styleStack[i] = "none"
          /\ Len(styleStack') = 1 \/ Top(styleStack') # "none"]_vars

(* show() has just removed two "none" entries from above a "pointer" *)
C11_Witness ==
    /\ lastOp = "show"
    /\ beforeHide = <<"default", "pointer", "none">>
    /\ styleStack = <<"default", "pointer">>
    /\ isVisible

(* ------------------------------------------------------------------ *)
(* C12: setLerpFactor(f) sets the interpolation factor to
   min(1, max(0.01, f)) and leaves the smoothed position, the raw position
   and the velocity as they were; a tick interpolates with the factor
   that is current when it runs, so only the ticks after the call use the
   new one. *)
ClaimedFactor(f) ==
    IF f < MinLerp THEN MinLerp ELSE IF f > MaxLerp THEN MaxLerp ELSE f

C12_SetLerpFactorClamps ==
    [][/\ \A f \in LerpInputs :
             setLerpFactor(f) =>
                /\ lerpFactor' = ClaimedFactor(f)
                /\ UNCHANGED <<smoothPosition, position, velocity>>
       /\ lastOp' = "update" =>
             /\ LerpUnit * (smoothPosition'.x - smoothPosition.x)
                   = lerpFactor * (Scale * position.x - smoothPosition.x)
             /\ LerpUnit * (smoothPosition'.y - smoothPosition.y)
                   = lerpFactor * (Scale * position.y - smoothPosition.y)
             /\ lerpFactor' = lerpFactor]_vars

(* setLerpFactor has just clamped a factor below 0.01, on a manager whose
   cursor has moved and been smoothed *)
C12_Witness ==
    /\ lastOp = "setLerpFactor"
    /\ lerpFactor = MinLerp
    /\ smoothPosition # Pos(0, 0)
    /\ velocity # Pos(0, 0)

(* ------------------------------------------------------------------ *)
InvokedTimes(events, c) ==
    Cardinality({i \in 1..Len(events) :
                    events[i].ev = "invoke" /\ events[i].cb = c})

(* C13: on every tick the velocity, the previous position and the smoothed
   position are updated, in the same way with or without subscribers; each
   callback that is in the subscriber set when the tick starts and is not
   removed during the tick is called exactly once, and every call of the
   tick receives a snapshot of the state after that update. *)
C13_TickNotifiesEach ==
    [][lastOp' = "update" =>
          /\ velocity' = Pos(position.x - previousPosition.x,
                              position.y - previousPosition.y)
          /\ previousPosition' = position
          /\ LerpUnit * (smoothPosition'.x - smoothPosition.x)
                = lerpFactor * (Scale * position.x - smoothPosition.x)
          /\ LerpUnit * (smoothPosition'.y - smoothPosition.y)
                = lerpFactor * (Scale * position.y - smoothPosition.y)
          /\ \A c \in Callbacks :
                 (/\ SetHas(subscribers, c)
                  /\ \A i \in 1..Len(log') : ~Removes(log'[i], c))
                    => InvokedTimes(log', c) = 1
          /\ \A c \in Callbacks :
                 ~SetHas(subscribers, c) => InvokedTimes(log', c) = 0
          /\ \A i \in 1..Len(log') :
                 log'[i].ev = "invoke" => log'[i].state = GetState']_vars

(* a tick that moved the smoothed position and called both subscribers,
   neither of which was removed *)
C13_Witness ==
    /\ lastOp = "update"
    /\ Len(log) = 2
    /\ InvokedTimes(log, "cbA") = 1
    /\ InvokedTimes(log, "cbB") = 1
    /\ velocity # Pos(0, 0)
    /\ smoothPosition # Pos(0, 0)

(* ------------------------------------------------------------------ *)
(* The values the snapshot had when it was handed out *)
AsHandedOut(s) ==
    [s EXCEPT !.position = @.value,
              !.normalizedPosition = @.value,
              !.smoothPosition = @.value,
              !.velocity = @.value]

(* C14: a snapshot handed out by getState() (the object a subscriber
   receives is made by the same call) is a value: whatever the manager
   does afterwards (pointer moves, ticks, snapToPosition, style and visibility
   changes), its holder reads from every field what the field held when the
   snapshot was handed out. *)
C14_SnapshotIsAValue ==
    held # <<>> => ReadSnapshot(held[1]) = AsHandedOut(held[1])

(* a snapshot held while a pointer move and a hide() changed the manager's
   raw position, style and visibility *)
C14_Witness ==
    /\ held # <<>>
    /\ heldAge >= 2
    /\ position # AsHandedOut(held[1]).position
    /\ style # held[1].style
    /\ isVisible # held[1].isVisible

(* ------------------------------------------------------------------ *)
(* The manager's own state and the handle, without the history *)
managerState ==
    <<position, smoothPosition, velocity, previousPosition, isVisible,
      isInViewport, styleStack, lerpFactor, subscribers, isInitialized,
      docListeners, tickerCallbacks, bodyCursor, instance>>

Returned(events) == events[Len(events)].state

(* C15: getInstance() returns the instance the handle names, whatever
   the options, and changes nothing while there is one; with a null handle
   it returns an instance that did not exist before, in its fresh state
   (base-only style stack, no subscribers, positions at the origin), and
   the handle names it. destroyInstance() leaves the instance uninitialized
   with nothing registered and the handle null, and changes nothing when the
   handle is null already. *)
C15_SingletonLifecycle ==
    [][/\ \A o \in Options :
             getInstance(o) =>
                /\ Returned(log') = instance'
                /\ instance # NoInstance =>
                      /\ instance' = instance
                      /\ UNCHANGED managerState
                /\ instance = NoInstance =>
                      /\ instance' \notin 0..created
                      /\ styleStack' = <<o.initialStyle>>
                      /\ subscribers' = <<>>
                      /\ isVisible'
                      /\ position' = Pos(0, 0)
                      /\ smoothPosition' = Pos(0, 0)
                      /\ velocity' = Pos(0, 0)
       /\ lastOp' = "destroyInstance" =>
             /\ instance' = NoInstance
             /\ instance # NoInstance =>
                   /\ ~isInitialized'
                   /\ docListeners' = NoListeners
                   /\ tickerCallbacks' = 0
             /\ instance = NoInstance => UNCHANGED managerState]_vars

(* getInstance() has just made the second instance, after the first one
   was hidden and then destroyed through destroyInstance() *)
C15_Witness ==
    /\ lastOp = "getInstance"
    /\ Len(log) = 2
    /\ instance = 2
    /\ bodyCursor = "none"
    /\ styleStack = <<"pointer">>
    /\ subscribers = <<>>

(* ------------------------------------------------------------------ *)
(* C16: calling an unsubscribe handle whose callback is not in the
   subscriber set, because it was unsubscribed already or destroy() cleared
   the set, is a no-op: the call goes through and the subscriber set and
   the rest of the manager's state stay as they were. *)
C16_StaleUnsubscribeIsNoOp ==
    [][\A c \in Callbacks :
          (unsubscribe(c) /\ ~SetHas(subscribers, c)) =>
              /\ UNCHANGED managerState
              /\ UNCHANGED <<handles, platform, viewport>>]_vars

(* a handle has just been called for a callback that was not subscribed,
   while another callback was *)
C16_Witness ==
    /\ lastOp = "unsubscribe"
    /\ Len(log) = 1
    /\ log[1].ev = "delete"
    /\ log[1].state = FALSE
    /\ subscribers # <<>>

(* ------------------------------------------------------------------ *)
(* C17: setBaseStyle(s) replaces the entry at index 0 only: the stack
   keeps its length and its entries above the base. When the stack has one
   element the platform cursor (where there is a document) becomes s;
   otherwise the platform cursor and the current style stay as they
   were. *)
C17_SetBaseStyleReplacesBase ==
    [][\A s \in Styles :
          setBaseStyle(s) =>
              /\ Len(styleStack') = Len(styleStack)
              /\ styleStack'[1] = s
              /\ \A i \in 2..Len(styleStack) : styleStack'[i] = styleStack[i]
              /\ isVisible' = isVisible
              /\ (Len(styleStack) = 1 /\ platform) => bodyCursor' = s
              /\ (Len(styleStack) = 1 /\ ~platform) => bodyCursor' = bodyCursor
              /\ Len(styleStack) > 1 =>
                    (bodyCursor' = bodyCursor /\ style' = style)]_vars

(* setBaseStyle has just run under two pushed overrides, whose top the
   platform cursor still shows *)
C17_Witness ==
    /\ lastOp = "setBaseStyle"
    /\ platform
    /\ styleStack = <<"none", "default", "pointer">>
    /\ bodyCursor = "pointer"

(* ------------------------------------------------------------------ *)
(* The fraction n equals 2 * raw / size - 1 *)
IsNormalized(n, raw, size) ==
    /\ n[2] # 0
    /\ n[1] * size = (2 * raw - size) * n[2]

(* C18: in a window, normalizedPosition is 2 * raw / size - 1 on each
   axis: 0 for a raw coordinate at half the size, -1 at 0 and 1 at the
   size; without a window it is (0, 0). *)
C18_NormalizedPosition ==
    LET n == normalizedPosition
    IN  IF ~platform THEN n.x[1] = 0 /\ n.y[1] = 0 /\ n.x[2] # 0 /\ n.y[2] # 0
        ELSE /\ IsNormalized(n.x, position.x, viewport[1])
             /\ IsNormalized(n.y, position.y, viewport[2])
             /\ 2 * position.x = viewport[1] => n.x[1] = 0
             /\ 2 * position.y = viewport[2] => n.y[1] = 0
             /\ position.x = 0 => n.x[1] = -n.x[2]
             /\ position.y = 0 => n.y[1] = -n.y[2]
             /\ position.x = viewport[1] => n.x[1] = n.x[2]
             /\ position.y = viewport[2] => n.y[1] = n.y[2]

(* the pointer has just moved to the centre of a window that was resized *)
C18_Witness ==
    /\ platform
    /\ lastOp = "handleMouseMove"
    /\ viewport = <<2, 4>>
    /\ position = Pos(1, 2)
    /\ normalizedPosition.x[1] = 0
    /\ normalizedPosition.y[1] = 0

(* ------------------------------------------------------------------ *)
(* C19: in useCursorSnapshot at most one timeout is pending at any time
   and none is pending once the cleanup has run; a snapshot update comes
   no sooner than a full throttle window after the one before it, carries
   the position of the latest pointer event at the moment the timeout
   fires, and does not happen while the hook is cleaned up. *)
C19_ThrottleSamplesLatest ==
    /\ [](/\ Cardinality(hook.pending) <= 1
          /\ ~hook.listening => hook.pending = {})
    /\ [][/\ lastOp' = "timerFire" =>
                /\ hook.listening
                /\ hookHist.sinceUpdate >= ThrottleMs
                /\ hook'.snapshot = hookHist.pointer
          /\ hook'.snapshot # hook.snapshot => lastOp' = "timerFire"
          /\ ~hook.listening => hook'.snapshot = hook.snapshot]_vars

(* a timeout has just fired after a burst of two pointer events or more,
   and the snapshot carries the position of the last of them *)
C19_Witness ==
    /\ lastOp = "timerFire"
    /\ hookHist.burst >= 2
    /\ hook.snapshot = Pos(1, 2)
    /\ hookHist.pointer = Pos(1, 2)
    /\ hook.pending = {}
    /\ hook.listening

(* C20 as stated: a pointer event that arrives while a timeout is
   pending cancels it and starts a new one for a full throttle window from
   that event. *)
C20_MoveRestartsTimer ==
    [][\A p \in Points :
          (pointerMove(p) /\ hook.listening /\ hook.timer # NoTimer) =>
              /\ hook'.timer # NoTimer
              /\ \A t \in hook'.pending : t.left = ThrottleMs]_vars

(* C20, amended: a pointer event that arrives while a timeout is pending
   leaves that timeout as it is, neither cancelled nor restarted, so it
   fires a throttle window after the event that set it; the event only
   stores its position for the timeout to sample. *)
C20_MoveKeepsTimer ==
    [][\A p \in Points :
          (pointerMove(p) /\ hook.listening /\ hook.timer # NoTimer) =>
              /\ hook'.timer = hook.timer
              /\ hook'.pending = hook.pending
              /\ hook'.posRef = Pos(p[1], p[2])
              /\ hook'.snapshot = hook.snapshot]_vars

(* a pointer event has just arrived part of the way through the window of
   a pending timeout, which is still pending with the time it had left *)
C20_Witness ==
    /\ lastOp = "pointerMove"
    /\ hook.listening
    /\ hook.timer # NoTimer
    /\ \E t \in hook.pending : t.id = hook.timer /\ t.left < ThrottleMs
    /\ hook.posRef = Pos(4, 2)
    /\ hook.snapshot # hook.posRef

(* ------------------------------------------------------------------ *)
(* C21 as stated: however the manager was constructed and whatever
   setLerpFactor calls were made, the factor a tick has just interpolated
   with lies in (0, 1]. *)
C21_TickFactorInRange ==
    lastOp = "update" => (lerpFactor > 0 /\ lerpFactor <= MaxLerp)

(* ------------------------------------------------------------------ *)
(* C22 as stated: however the hover pairs pushStyle(s) ... popStyle() and
   the visibility pairs hide() ... show() interleave, once every push has
   been followed by its pop and every hide by its show the style stack
   holds the base style alone. *)
C22_PairsLeaveBase ==
    (styleHist.mode = "pairs" /\ styleHist.hovers = 0 /\ styleHist.hides = 0)
        => Len(styleStack) = 1

(* ------------------------------------------------------------------ *)
(* C23 as stated: in every state reached by pushStyle, popStyle, hide,
   show and the pointer's enter, leave and move events, isVisible is false
   if and only if a "none" entry that hide() pushed is still on the style
   stack. *)
C23_HiddenIffHideEntry ==
    styleHist.mode = "owners" =>
        (~isVisible <=>
            \E i \in 1..Len(styleStack) :
                styleHist.owners[i] = "hide" /\ styleStack[i] = "none")

(* ------------------------------------------------------------------ *)
(* C24 as stated: an unsubscribe handle ends only the subscription that
   returned it, so a callback that still has a subscription in force after
   a tick, although a handle of an earlier subscription of it was called,
   was notified in that tick. *)
C24_HandleEndsOwnSubscription ==
    (subsHist.on /\ lastOp = "update") =>
        \A c \in Callbacks :
            subsHist.active[c] > 0 => InvokedTimes(log, c) >= 1

====
